---- MODULE Spec2Model ----
(***************************************************************************)
(* Model of common/elasticsearch/client_v7_bulk.go: the v7 adapter of the  *)
(* generic bulk processor.  The adapter translates generic bulk requests   *)
(* to olivere/elastic v7 requests, forwards the lifecycle calls to the     *)
(* native elastic.BulkProcessor, and bridges the engine's before/after     *)
(* hooks to the caller's hooks by converting each argument.                *)
(*                                                                         *)
(* Every Go value that can be nil (pointer, slice, map, interface) is a    *)
(* record with an isNil field, so that "absent" and "present but empty"    *)
(* are different values.  A run-time panic is the value Panic.             *)
(***************************************************************************)
EXTENDS Integers, Sequences, FiniteSets, TLC

VARIABLES
    lifecycle,    \* engine state: Unstarted, Started, Stopped, Crashed
    numWorkers,   \* parameters.NumOfWorkers of the running processor
    service,      \* per worker: the requests its bulk service has accumulated
    inflight,     \* per worker: the batch between its before and after hook
    executionId,  \* the engine's execution id counter
    nativeCalls,  \* what the engine handed to beforeFunc/afterFunc, in order
    hookCalls,    \* what the caller's BeforeFunc/AfterFunc received, in order
    submitted,    \* history: the generic requests passed to Add, in order
    lastCall,     \* the last facade call, its result and the engine's result
    panicked,     \* a worker goroutine panicked: the process is gone
    cin,          \* conversion checks: the native value drawn as input
    cout          \* conversion checks: the converted value

vars == <<lifecycle, numWorkers, service, inflight, executionId, nativeCalls,
          hookCalls, submitted, lastCall, panicked, cin, cout>>

flowVars == <<lifecycle, numWorkers, service, inflight, executionId,
              nativeCalls, hookCalls, submitted, lastCall, panicked>>

convVars == <<cin, cout>>

-----------------------------------------------------------------------------
(* Bounds of the model *)

MaxWorkers == 2
MaxAdds == 2
MaxItems == 2

-----------------------------------------------------------------------------
(* Go values *)

Panic == [panic |-> TRUE]

IsPanic(x) == "panic" \in DOMAIN x

\* a nil pointer or a nil interface value
Nil == [isNil |-> TRUE]

\* a nil slice and a slice holding the elements of sequence s
NilSlice == [isNil |-> TRUE, elems |-> <<>>]

Slice(s) == [isNil |-> FALSE, elems |-> s]

\* Go's append: the result is never nil, whatever the slice appended to
GoAppend(s, x) == [isNil |-> FALSE, elems |-> Append(s.elems, x)]

\* a nil map and a map with the entries of function f
NilMap == [isNil |-> TRUE, m |-> <<>>]

GoMap(f) == [isNil |-> FALSE, m |-> f]

RECURSIVE SeqsUpTo(_, _)
SeqsUpTo(S, n) ==
    IF n = 0 THEN {<<>>}
    ELSE LET shorter == SeqsUpTo(S, n - 1)
         IN  shorter \cup {Append(s, x) : s \in {t \in shorter : Len(t) = n - 1}, x \in S}

-----------------------------------------------------------------------------
(* Generic model: request kinds and the unknown status sentinel *)

BulkableIndexRequest == "BulkableIndexRequest"

BulkableDeleteRequest == "BulkableDeleteRequest"

BulkableCreateRequest == "BulkableCreateRequest"

\* a RequestType value outside the three declared kinds
UnknownRequestType == "UnknownRequestType"

unknownStatusCode == -1

-----------------------------------------------------------------------------
(* elastic v7 request builders, as the adapter uses them *)

\* elastic.NewBulkDeleteRequest(): nothing set yet
NewBulkDeleteRequest ==
    [isNil |-> FALSE, op |-> "delete", index |-> "", id |-> "",
     versionType |-> "", version |-> Nil, doc |-> Nil]

\* elastic.NewBulkIndexRequest(): the op-type defaults to "index"
NewBulkIndexRequest ==
    [isNil |-> FALSE, op |-> "index", index |-> "", id |-> "",
     versionType |-> "", version |-> Nil, doc |-> Nil]

Int64(n) == [isNil |-> FALSE, val |-> n]

-----------------------------------------------------------------------------
(* v7BulkProcessor.Add: the translation of a generic request *)

\* faulty variant: the create case hands on the caller's versionType and version
ToNativeCreateLeaksVersion(request) ==
    CASE request.RequestType = BulkableDeleteRequest ->
           [NewBulkDeleteRequest EXCEPT !.index = request.Index, !.id = request.ID,
              !.versionType = request.VersionType, !.version = Int64(request.Version)]
      [] request.RequestType = BulkableIndexRequest ->
           [NewBulkIndexRequest EXCEPT !.index = request.Index, !.id = request.ID,
              !.versionType = request.VersionType, !.version = Int64(request.Version),
              !.doc = request.Doc]
      [] request.RequestType = BulkableCreateRequest ->
           [NewBulkIndexRequest EXCEPT !.op = "create", !.index = request.Index,
              !.id = request.ID, !.versionType = request.VersionType,
              !.version = Int64(request.Version), !.doc = request.Doc]
      [] OTHER -> Nil

\* the switch of Add: req stays the nil interface when no case matches
ToNative(request) ==
    CASE request.RequestType = BulkableDeleteRequest ->
           [NewBulkDeleteRequest EXCEPT !.index = request.Index, !.id = request.ID,
              !.versionType = request.VersionType, !.version = Int64(request.Version)]
      [] request.RequestType = BulkableIndexRequest ->
           [NewBulkIndexRequest EXCEPT !.index = request.Index, !.id = request.ID,
              !.versionType = request.VersionType, !.version = Int64(request.Version),
              !.doc = request.Doc]
      [] request.RequestType = BulkableCreateRequest ->
           [NewBulkIndexRequest EXCEPT !.op = "create", !.index = request.Index,
              !.id = request.ID, !.versionType = "internal", !.doc = request.Doc]
      [] OTHER -> Nil

-----------------------------------------------------------------------------
(* Conversions from the native to the generic model *)

\* faulty variant: the status of a backend error is not looked at
convertV7ErrorAlwaysUnknown(err) ==
    IF err.isNil THEN Nil
    ELSE [isNil |-> FALSE, Status |-> unknownStatusCode, Details |-> err]

convertV7ErrorToGenericError(err) ==
    IF err.isNil THEN Nil
    ELSE [isNil |-> FALSE,
          Status |-> IF err.type = "*elastic.Error" THEN err.Status
                     ELSE unknownStatusCode,
          Details |-> err]

\* dereferences v: a nil item pointer panics
fromV7ToGenericBulkResponseItem(v) ==
    IF v.isNil THEN Panic
    ELSE [isNil |-> FALSE, Index |-> v.Index, Type |-> v.Type, ID |-> v.Id,
          Version |-> v.Version, Result |-> v.Result, SeqNo |-> v.SeqNo,
          PrimaryTerm |-> v.PrimaryTerm, Status |-> v.Status,
          ForcedRefresh |-> v.ForcedRefresh]

fromV7ToGenericBulkResponseItemMap(m) ==
    IF m.isNil THEN NilMap
    ELSE LET gm == [k \in DOMAIN m.m |-> fromV7ToGenericBulkResponseItem(m.m[k])]
         IN  IF \E k \in DOMAIN gm : IsPanic(gm[k]) THEN Panic ELSE GoMap(gm)

\* the loop of fromV7ToGenericBulkResponseItemMaps from element i on
RECURSIVE ItemMapsLoop(_, _, _)
ItemMapsLoop(items, i, gitems) ==
    IF i > Len(items.elems) THEN gitems
    ELSE LET gm == fromV7ToGenericBulkResponseItemMap(items.elems[i])
         IN  IF IsPanic(gm) THEN Panic
             ELSE ItemMapsLoop(items, i + 1, GoAppend(gitems, gm))

\* faulty variant: the result starts as an empty slice instead of a nil one
ItemMapsFromEmpty(items) == ItemMapsLoop(items, 1, Slice(<<>>))

\* var gitems starts nil and is appended to once per element
fromV7ToGenericBulkResponseItemMaps(items) == ItemMapsLoop(items, 1, NilSlice)

\* &GenericBulkResponse{}: every field has its zero value
ZeroGenericBulkResponse ==
    [isNil |-> FALSE, Took |-> 0, Errors |-> FALSE, Items |-> NilSlice]

\* faulty variant: a nil native response is handed on as nil
fromV7toGenericBulkResponseKeepsNil(response) ==
    IF response.isNil THEN Nil
    ELSE LET gitems == fromV7ToGenericBulkResponseItemMaps(response.Items)
         IN  IF IsPanic(gitems) THEN Panic
             ELSE [isNil |-> FALSE, Took |-> response.Took,
                   Errors |-> response.Errors, Items |-> gitems]

fromV7toGenericBulkResponse(response) ==
    IF response.isNil THEN ZeroGenericBulkResponse
    ELSE LET gitems == fromV7ToGenericBulkResponseItemMaps(response.Items)
         IN  IF IsPanic(gitems) THEN Panic
             ELSE [isNil |-> FALSE, Took |-> response.Took,
                   Errors |-> response.Errors, Items |-> gitems]

\* the loop of fromV7ToGenericBulkableRequests from element i on
RECURSIVE RequestsLoop(_, _, _)
RequestsLoop(requests, i, v7Reqs) ==
    IF i > Len(requests.elems) THEN v7Reqs
    ELSE RequestsLoop(requests, i + 1, GoAppend(v7Reqs, requests.elems[i]))

\* faulty variant: the loop prepends, so the batch comes out reversed
RECURSIVE RequestsReversed(_)
RequestsReversed(requests) ==
    IF Len(requests.elems) = 0 THEN NilSlice
    ELSE GoAppend(RequestsReversed([requests EXCEPT !.elems = Tail(requests.elems)]),
                  Head(requests.elems))

\* var v7Reqs starts nil and is appended to once per element
fromV7ToGenericBulkableRequests(requests) == RequestsLoop(requests, 1, NilSlice)

-----------------------------------------------------------------------------
(* Callback bridge: the two closures of RunBulkProcessor *)

\* what parameters.BeforeFunc receives
beforeFunc(id, requests) ==
    [hook |-> "before", executionId |-> id,
     ops |-> fromV7ToGenericBulkableRequests(requests)]

\* faulty variant: the after hook is called with a fresh execution id
afterFuncOwnId(id, requests, response, err) ==
    LET gerr == convertV7ErrorToGenericError(err)
        gresp == fromV7toGenericBulkResponse(response)
    IN  IF IsPanic(gresp) THEN Panic
        ELSE [hook |-> "after", executionId |-> id + 1,
              ops |-> fromV7ToGenericBulkableRequests(requests),
              response |-> gresp, err |-> gerr]

\* what parameters.AfterFunc receives, or Panic when a conversion of an
\* argument panics and AfterFunc is never called
afterFunc(id, requests, response, err) ==
    LET gerr == convertV7ErrorToGenericError(err)
        gresp == fromV7toGenericBulkResponse(response)
    IN  IF IsPanic(gresp) THEN Panic
        ELSE [hook |-> "after", executionId |-> id,
              ops |-> fromV7ToGenericBulkableRequests(requests),
              response |-> gresp, err |-> gerr]

-----------------------------------------------------------------------------
(* Input domains *)

Docs == {[isNil |-> FALSE, body |-> "docA"]}

GenericRequests ==
    [RequestType : {BulkableIndexRequest, BulkableDeleteRequest,
                    BulkableCreateRequest, UnknownRequestType},
     Index : {"idx"}, ID : {"d1", "d2"}, VersionType : {"external", "internal"},
     Version : {0, 3}, Doc : Docs]

\* every value Add can hand to the engine
NativeRequests == {ToNative(r) : r \in GenericRequests}

NativeErrors ==
    {Nil}
      \cup [isNil : {FALSE}, type : {"*elastic.Error"}, Status : {0, 404, 409}]
      \cup [isNil : {FALSE}, type : {"*errors.errorString"}, msg : {"EOF", "timeout"}]

\* *elastic.BulkResponseItem; Error has no slot in the generic item
NativeItems ==
    {Nil} \cup
    {[isNil |-> FALSE, Index |-> "idx", Type |-> "_doc", Id |-> i, Version |-> 2,
      Result |-> IF st = 201 THEN "created" ELSE "", SeqNo |-> 7, PrimaryTerm |-> 1,
      Status |-> st, ForcedRefresh |-> (st = 201),
      Error |-> IF st = 201 THEN Nil ELSE [isNil |-> FALSE, Type |-> "conflict"]]
       : i \in {"d1", "d2"}, st \in {201, 409}}

ItemKeys == {"index", "delete"}

NativeItemMaps ==
    {NilMap} \cup
    {GoMap(f) : f \in UNION {[K -> NativeItems] : K \in SUBSET ItemKeys}}

NativeItemLists ==
    {NilSlice} \cup {Slice(s) : s \in SeqsUpTo(NativeItemMaps, MaxItems)}

NativeResponses ==
    {Nil} \cup
    [isNil : {FALSE}, Took : {0, 5}, Errors : BOOLEAN, Items : NativeItemLists]

NativeBatches ==
    {NilSlice} \cup {Slice(s) : s \in SeqsUpTo(NativeRequests, MaxItems)}

-----------------------------------------------------------------------------
(* The native engine, elastic.BulkProcessor.  Its code is not part of the   *)
(* adapter; it is modelled by the interface the adapter relies on: a pool   *)
(* of numWorkers workers, each accumulating the requests it received and    *)
(* committing them as one batch under a fresh execution id, between a       *)
(* before and an after hook that run on the worker.  Workers commit on a    *)
(* size, count or time trigger, on Flush, and when they are drained by Stop *)
(* or Close.  Flush, Stop and Close wait for the workers that are in the    *)
(* middle of a commit.  Add is called on a started processor only.          *)

\* the requests Add is called with in the processor runs: an index of d1,
\* a delete of d2 and a request of an unknown kind
FlowRequests ==
    {r \in GenericRequests :
        /\ r.VersionType = "external" /\ r.Version = 3
        /\ r.RequestType # BulkableCreateRequest
        /\ r.ID = IF r.RequestType = BulkableDeleteRequest THEN "d2" ELSE "d1"}

\* the results of a commit: success, failure, and a response holding a nil
\* item
OkResponse ==
    [isNil |-> FALSE, Took |-> 5, Errors |-> FALSE,
     Items |-> Slice(<<GoMap([index |->
                 [isNil |-> FALSE, Index |-> "idx", Type |-> "_doc", Id |-> "d1",
                  Version |-> 2, Result |-> "created", SeqNo |-> 7,
                  PrimaryTerm |-> 1, Status |-> 201, ForcedRefresh |-> FALSE,
                  Error |-> Nil]])>>)]

NilItemResponse ==
    [isNil |-> FALSE, Took |-> 5, Errors |-> TRUE,
     Items |-> Slice(<<GoMap([index |-> Nil])>>)]

BackendError == [isNil |-> FALSE, type |-> "*elastic.Error", Status |-> 409]

CommitOutcomes ==
    {[response |-> OkResponse, err |-> Nil],
     [response |-> Nil, err |-> BackendError],
     [response |-> NilItemResponse, err |-> Nil]}

\* what building the engine and what its Flush may return
EngineErrors == {Nil, [isNil |-> FALSE, type |-> "*errors.errorString", msg |-> "engine"]}

\* what Start, Stop and Close of a built engine return
LifecycleErrors == {Nil}

Workers == 1..numWorkers

Idle == \A w \in 1..MaxWorkers : inflight[w].isNil

\* the workers that hold requests to commit
Holding == {w \in Workers : service[w] # <<>>}

\* the running state of one thread of commits: the id counter, the calls
\* made so far and whether a hook bridge panicked
CommitState == [id |-> executionId, native |-> nativeCalls, hooks |-> hookCalls,
                panicked |-> FALSE]

\* the engine's invocation of the before bridge for a new execution id
CommitBefore(st, requests) ==
    [st EXCEPT
       !.id = st.id + 1,
       !.native = Append(@, [hook |-> "before", id |-> st.id + 1,
                             requests |-> requests]),
       !.hooks = Append(@, beforeFunc(st.id + 1, requests))]

\* the engine's invocation of the after bridge with the result of the commit
CommitAfter(st, id, requests, out) ==
    LET call == afterFunc(id, requests, out.response, out.err)
    IN  [st EXCEPT
           !.native = Append(@, [hook |-> "after", id |-> id, requests |-> requests,
                                 response |-> out.response, err |-> out.err]),
           !.hooks = IF IsPanic(call) THEN @ ELSE Append(@, call),
           !.panicked = IsPanic(call)]

\* one worker commits what its service holds, if anything
CommitWorker(st, w, outs) ==
    IF st.panicked \/ service[w] = <<>> THEN st
    ELSE LET b == CommitBefore(st, Slice(service[w]))
         IN  CommitAfter(b, b.id, Slice(service[w]), outs[w])

\* the workers from w on commit one after the other, as Flush and Close
\* make them
RECURSIVE CommitFrom(_, _, _)
CommitFrom(st, w, outs) ==
    IF w > numWorkers THEN st
    ELSE CommitFrom(CommitWorker(st, w, outs), w + 1, outs)

Record(st) ==
    /\ executionId' = st.id
    /\ nativeCalls' = st.native
    /\ hookCalls' = st.hooks
    /\ panicked' = st.panicked

-----------------------------------------------------------------------------
(* The facade calls *)

\* the two returns of RunBulkProcessor
RunResult(engineErr) ==
    IF ~engineErr.isNil THEN [processor |-> Nil, err |-> engineErr]
    ELSE [processor |-> [isNil |-> FALSE], err |-> Nil]

\* faulty variant: Flush swallows the engine's error
PassThroughSwallows(engineErr) == Nil

\* Flush, Start, Stop and Close return what the engine returns
PassThrough(engineErr) == engineErr

RunBulkProcessor ==
    /\ lifecycle = "Unstarted" /\ ~panicked
    /\ \E n \in 1..MaxWorkers, engineErr \in EngineErrors :
         LET res == RunResult(engineErr)
         IN  /\ lastCall' = [op |-> "RunBulkProcessor", returned |-> TRUE,
                             engine |-> engineErr, result |-> res]
             /\ IF res.processor.isNil
                THEN UNCHANGED <<lifecycle, numWorkers>>
                ELSE lifecycle' = "Started" /\ numWorkers' = n
    /\ UNCHANGED <<service, inflight, executionId, nativeCalls, hookCalls,
                   submitted, panicked, convVars>>

\* Add translates and sends to the engine; an idle worker receives the request
Add(request) ==
    /\ lifecycle = "Started" /\ ~panicked
    /\ Len(submitted) < MaxAdds
    /\ \E w \in Workers :
         /\ inflight[w].isNil
         /\ service' = [service EXCEPT ![w] = Append(@, ToNative(request))]
         /\ lastCall' = [op |-> "Add", returned |-> TRUE, request |-> request,
                         worker |-> w]
    /\ submitted' = Append(submitted, request)
    /\ UNCHANGED <<lifecycle, numWorkers, inflight, executionId, nativeCalls,
                   hookCalls, panicked, convVars>>

\* Flush: every worker in turn commits what it holds; after Stop or Close
\* there is no worker left and the call yields the engine's own result
Flush ==
    /\ lifecycle \in {"Started", "Stopped"} /\ ~panicked
    /\ Idle
    /\ \E outs \in [Holding -> CommitOutcomes], engineErr \in EngineErrors :
         LET st == IF lifecycle = "Started"
                   THEN CommitFrom(CommitState, 1, outs)
                   ELSE CommitState
         IN  /\ Record(st)
             /\ service' = IF lifecycle = "Started"
                           THEN [w \in 1..MaxWorkers |-> <<>>] ELSE service
             /\ lastCall' = IF st.panicked
                            THEN [op |-> "Flush", returned |-> FALSE]
                            ELSE [op |-> "Flush", returned |-> TRUE,
                                  engine |-> engineErr,
                                  result |-> PassThrough(engineErr)]
    /\ UNCHANGED <<lifecycle, numWorkers, inflight, submitted, convVars>>

\* Stop and Close end the workers; what they still hold is drained (committed)
\* or dropped, as the engine decides.  On a stopped engine nothing happens.
Shutdown(op) ==
    /\ lifecycle \in {"Started", "Stopped"} /\ ~panicked
    /\ Idle
    /\ \E drain \in {d \in BOOLEAN : d => Holding # {}},
          engineErr \in LifecycleErrors :
       \E outs \in [IF drain THEN Holding ELSE {} -> CommitOutcomes] :
         LET st == IF lifecycle = "Started" /\ drain
                   THEN CommitFrom(CommitState, 1, outs)
                   ELSE CommitState
         IN  /\ Record(st)
             /\ lifecycle' = IF st.panicked THEN lifecycle ELSE "Stopped"
             /\ service' = IF lifecycle = "Started"
                           THEN [w \in 1..MaxWorkers |-> <<>>] ELSE service
             /\ lastCall' = IF st.panicked
                            THEN [op |-> op, returned |-> FALSE]
                            ELSE [op |-> op, returned |-> TRUE,
                                  engine |-> engineErr,
                                  result |-> PassThrough(engineErr)]
    /\ UNCHANGED <<numWorkers, inflight, submitted, convVars>>

Stop == Shutdown("Stop")

Close == Shutdown("Close")

\* Start on the processor RunBulkProcessor returned, which is started
\* already: the engine stays as it is
Start ==
    /\ lifecycle = "Started" /\ ~panicked
    /\ \E engineErr \in LifecycleErrors :
         /\ lifecycle' = lifecycle
         /\ lastCall' = [op |-> "Start", returned |-> TRUE, engine |-> engineErr,
                         result |-> PassThrough(engineErr)]
    /\ UNCHANGED <<numWorkers, service, inflight, executionId, nativeCalls,
                   hookCalls, submitted, panicked, convVars>>

\* a size, count or time trigger makes worker w commit: the before hook
TriggerCommit(w) ==
    /\ lifecycle = "Started" /\ ~panicked
    /\ inflight[w].isNil
    /\ service[w] # <<>>
    /\ Record(CommitBefore(CommitState, Slice(service[w])))
    /\ inflight' = [inflight EXCEPT ![w] =
                      [isNil |-> FALSE, id |-> executionId + 1,
                       requests |-> Slice(service[w])]]
    /\ service' = [service EXCEPT ![w] = <<>>]
    /\ UNCHANGED <<lifecycle, numWorkers, submitted, lastCall, convVars>>

\* worker w's commit ends: the after hook
WorkerAfter(w) ==
    /\ ~inflight[w].isNil /\ ~panicked
    /\ \E out \in CommitOutcomes :
         Record(CommitAfter(CommitState, inflight[w].id, inflight[w].requests, out))
    /\ inflight' = [inflight EXCEPT ![w] = Nil]
    /\ UNCHANGED <<lifecycle, numWorkers, service, submitted, lastCall, convVars>>

AddFlow == \E r \in FlowRequests : Add(r)

AddAny == \E r \in GenericRequests : Add(r)

\* no conversion applied yet
Pending == [pending |-> TRUE]

BridgeAfter ==
    /\ cin.fn = "after" /\ cout = Pending
    /\ cout' = afterFunc(cin.arg.id, cin.arg.requests, cin.arg.response, cin.arg.err)
    /\ UNCHANGED <<cin, flowVars>>

FlowInit ==
    /\ lifecycle = "Unstarted"
    /\ numWorkers = 0
    /\ service = [w \in 1..MaxWorkers |-> <<>>]
    /\ inflight = [w \in 1..MaxWorkers |-> Nil]
    /\ executionId = 0
    /\ nativeCalls = <<>>
    /\ hookCalls = <<>>
    /\ submitted = <<>>
    /\ lastCall = [op |-> "none"]
    /\ panicked = FALSE


Init == FlowInit /\ cin = [fn |-> "none"] /\ cout = Pending

Next ==
    \/ RunBulkProcessor
    \/ AddFlow
    \/ Flush
    \/ Start
    \/ Stop
    \/ Close
    \/ \E w \in Workers : TriggerCommit(w)
    \/ \E w \in Workers : WorkerAfter(w)

Spec == Init /\ [][Next]_vars

\* the translation of Add alone, on every generic request
AddNext == RunBulkProcessor \/ AddAny

SpecAdd == Init /\ [][AddNext]_vars

-----------------------------------------------------------------------------
(* The conversions applied to every native value *)

\* the arguments the engine calls the after bridge with
AfterArgs ==
    [id : {1, 2},
     requests : {NilSlice, Slice(<<ToNative(CHOOSE r \in FlowRequests :
                                     r.RequestType = BulkableIndexRequest)>>)},
     response : {Nil} \cup
                [isNil : {FALSE}, Took : {0, 5}, Errors : BOOLEAN,
                 Items : {NilSlice} \cup {Slice(s) : s \in SeqsUpTo(NativeItemMaps, 1)}],
     err : NativeErrors]

ConvInputs ==
    [fn : {"error"}, arg : NativeErrors]
      \cup [fn : {"response"}, arg : NativeResponses]
      \cup [fn : {"itemMap"}, arg : NativeItemMaps]
      \cup [fn : {"requests"}, arg : NativeBatches]
      \cup [fn : {"after"}, arg : AfterArgs]

ConvertError ==
    /\ cin.fn = "error" /\ cout = Pending
    /\ cout' = convertV7ErrorToGenericError(cin.arg)
    /\ UNCHANGED <<cin, flowVars>>

ConvertResponse ==
    /\ cin.fn = "response" /\ cout = Pending
    /\ cout' = fromV7toGenericBulkResponse(cin.arg)
    /\ UNCHANGED <<cin, flowVars>>

ConvertItemMap ==
    /\ cin.fn = "itemMap" /\ cout = Pending
    /\ cout' = fromV7ToGenericBulkResponseItemMap(cin.arg)
    /\ UNCHANGED <<cin, flowVars>>

ConvertRequests ==
    /\ cin.fn = "requests" /\ cout = Pending
    /\ cout' = fromV7ToGenericBulkableRequests(cin.arg)
    /\ UNCHANGED <<cin, flowVars>>

ConvInit == FlowInit /\ cin \in ConvInputs /\ cout = Pending

ConvNext ==
    ConvertError \/ ConvertResponse \/ ConvertItemMap \/ ConvertRequests \/ BridgeAfter

SpecConv == ConvInit /\ [][ConvNext]_vars

-----------------------------------------------------------------------------
(* Properties of the conversions, checked under SpecConv *)

Converted(fn) == cin.fn = fn /\ cout # Pending

\* C5: convertV7ErrorToGenericError maps nil to nil, a *elastic.Error with
\* status s to a generic error with Status = s, any other error to a generic
\* error with Status = unknownStatusCode, and keeps the original error as
\* Details in both non-nil cases.
C5_ErrorThreeWay ==
    Converted("error") =>
        /\ cin.arg.isNil => cout = Nil
        /\ ~cin.arg.isNil =>
             /\ ~cout.isNil
             /\ cout.Details = cin.arg
             /\ cin.arg.type = "*elastic.Error" => cout.Status = cin.arg.Status
             /\ cin.arg.type # "*elastic.Error" => cout.Status = unknownStatusCode

C5_Witness ==
    /\ Converted("error")
    /\ ~cin.arg.isNil
    /\ cin.arg.type = "*elastic.Error"
    /\ cout.Status = 404

\* the native and the generic item agree on the nine fields of the generic item
SameItem(v, g) ==
    /\ ~g.isNil
    /\ g.Index = v.Index /\ g.Type = v.Type /\ g.ID = v.Id
    /\ g.Version = v.Version /\ g.Result = v.Result /\ g.SeqNo = v.SeqNo
    /\ g.PrimaryTerm = v.PrimaryTerm /\ g.Status = v.Status
    /\ g.ForcedRefresh = v.ForcedRefresh

\* the generic map has the keys of the native map and, key by key, its items
SameItemMap(m, gm) ==
    /\ gm.isNil = m.isNil
    /\ DOMAIN gm.m = DOMAIN m.m
    /\ \A k \in DOMAIN m.m : ~m.m[k].isNil /\ SameItem(m.m[k], gm.m[k])

\* C7: for every non-nil native response with a non-nil item list the
\* conversion yields a generic response with the same Took and Errors and an
\* item list of the same length whose map at each position has the same keys
\* and, field for field, the same items as the native map at that position.
C7_ResponsePreserved ==
    (Converted("response") /\ ~cin.arg.isNil /\ ~cin.arg.Items.isNil) =>
        /\ ~IsPanic(cout)
        /\ ~cout.isNil
        /\ cout.Took = cin.arg.Took
        /\ cout.Errors = cin.arg.Errors
        /\ Len(cout.Items.elems) = Len(cin.arg.Items.elems)
        /\ \A i \in 1..Len(cin.arg.Items.elems) :
              SameItemMap(cin.arg.Items.elems[i], cout.Items.elems[i])

\* every item of every map of the response is present
AllItemsPresent(response) ==
    \A i \in 1..Len(response.Items.elems) :
        \A k \in DOMAIN response.Items.elems[i].m : ~response.Items.elems[i].m[k].isNil

\* C7 on the responses the conversion completes on: when no item pointer of
\* the response is nil, nothing with a generic slot is lost or reordered.
C7_PreservedWhenItemsPresent ==
    (Converted("response") /\ ~cin.arg.isNil /\ ~cin.arg.Items.isNil
       /\ AllItemsPresent(cin.arg)) =>
        /\ ~IsPanic(cout)
        /\ cout.Took = cin.arg.Took
        /\ cout.Errors = cin.arg.Errors
        /\ Len(cout.Items.elems) = Len(cin.arg.Items.elems)
        /\ \A i \in 1..Len(cin.arg.Items.elems) :
              SameItemMap(cin.arg.Items.elems[i], cout.Items.elems[i])

\* C8 as claimed: converting a nil native collection (response item list,
\* item map, request batch) yields a nil generic collection, and converting
\* a present but empty one yields a different, non-nil result.
C8_NilDiffersFromEmpty ==
    /\ Converted("requests") =>
         /\ cin.arg.isNil => cout = NilSlice
         /\ (~cin.arg.isNil /\ cin.arg.elems = <<>>) => cout # NilSlice
    /\ Converted("itemMap") /\ ~IsPanic(cout) =>
         /\ cin.arg.isNil => cout = NilMap
         /\ (~cin.arg.isNil /\ DOMAIN cin.arg.m = {}) => cout # NilMap
    /\ Converted("response") /\ ~cin.arg.isNil /\ ~IsPanic(cout) =>
         /\ cin.arg.Items.isNil => cout.Items = NilSlice
         /\ (~cin.arg.Items.isNil /\ cin.arg.Items.elems = <<>>) =>
              cout.Items # NilSlice

\* C8 amended: a nil native collection converts to a nil generic collection;
\* a present but empty item map converts to a present empty map, while a
\* present but empty item list or request batch converts to nil as well.
C8_NilStaysNil ==
    /\ Converted("requests") =>
         /\ cin.arg.isNil => cout = NilSlice
         /\ (~cin.arg.isNil /\ cin.arg.elems = <<>>) => cout = NilSlice
         /\ cin.arg.elems # <<>> => ~cout.isNil
    /\ Converted("itemMap") /\ ~IsPanic(cout) =>
         /\ cin.arg.isNil => cout = NilMap
         /\ (~cin.arg.isNil /\ DOMAIN cin.arg.m = {}) => cout = GoMap(<<>>)
    /\ Converted("response") /\ ~cin.arg.isNil /\ ~IsPanic(cout) =>
         /\ cin.arg.Items.isNil => cout.Items = NilSlice
         /\ (~cin.arg.Items.isNil /\ cin.arg.Items.elems = <<>>) =>
              cout.Items = NilSlice
         /\ cin.arg.Items.elems # <<>> => ~cout.Items.isNil

C8_Witness ==
    /\ Converted("response")
    /\ ~cin.arg.isNil
    /\ ~cin.arg.Items.isNil
    /\ cin.arg.Items.elems = <<>>
    /\ cout.Items = NilSlice

\* C10: fromV7toGenericBulkResponse completes on every native response,
\* also one with a nil, an empty or a nil-valued item map: it never panics.
C10_ResponseConversionTotal ==
    Converted("response") => ~IsPanic(cout)

-----------------------------------------------------------------------------
(* Properties of the after bridge, checked under SpecConv *)

\* C4: whenever the caller's after hook is invoked, its response argument is
\* non-nil (the zero-valued response when the native response is nil) and
\* its error argument is nil exactly when the native error is nil.
C4_AfterHookArguments ==
    (Converted("after") /\ ~IsPanic(cout)) =>
        /\ ~cout.response.isNil
        /\ cin.arg.response.isNil =>
             /\ cout.response.Took = 0
             /\ cout.response.Errors = FALSE
             /\ cout.response.Items.isNil
        /\ cout.err.isNil <=> cin.arg.err.isNil

C4_Witness ==
    /\ Converted("after")
    /\ ~IsPanic(cout)
    /\ cin.arg.response.isNil
    /\ ~cin.arg.err.isNil
    /\ cout.response.Took = 0
    /\ ~cout.err.isNil

-----------------------------------------------------------------------------
(* Properties of Add, checked under SpecAdd *)

Last(s) == s[Len(s)]

\* C6: the native request enqueued for a Create operation has op-type
\* "create" and versionType "internal" and no version, whatever versionType
\* and version the caller supplied, and carries index, id and doc unchanged.
C6_CreateForcesInternal ==
    (lastCall.op = "Add" /\ lastCall.request.RequestType = BulkableCreateRequest) =>
        LET req == Last(service[lastCall.worker])
        IN  /\ ~req.isNil
            /\ req.op = "create"
            /\ req.versionType = "internal"
            /\ req.version = Nil
            /\ req.index = lastCall.request.Index
            /\ req.id = lastCall.request.ID
            /\ req.doc = lastCall.request.Doc

C6_Witness ==
    /\ lastCall.op = "Add"
    /\ lastCall.request.RequestType = BulkableCreateRequest
    /\ lastCall.request.VersionType = "external"
    /\ lastCall.request.Version = 3
    /\ Last(service[lastCall.worker]).versionType = "internal"

-----------------------------------------------------------------------------
(* Properties of the processor, checked under Spec *)

KnownKinds == {BulkableDeleteRequest, BulkableIndexRequest, BulkableCreateRequest}

\* no batch handed to a hook holds a nil entry
NoNilInBatches ==
    \A i \in 1..Len(hookCalls) :
        \A k \in 1..Len(hookCalls[i].ops.elems) : ~hookCalls[i].ops.elems[k].isNil

\* C1: an Add of an operation of unknown kind leaves the engine's queue as it
\* was (not even a nil request is enqueued), and no batch handed to the
\* before or after hook holds an entry that stems from such a call.
C1_UnknownKindDropped ==
    [][/\ \A r \in FlowRequests :
            (r.RequestType \notin KnownKinds /\ Add(r)) => service' = service
       /\ NoNilInBatches']_vars

\* the generic operation r became the native request req
Translated(r, req) ==
    /\ ~req.isNil
    /\ req.id = r.ID
    /\ req.index = r.Index
    /\ req.op = IF r.RequestType = BulkableDeleteRequest THEN "delete" ELSE "index"

\* two operations of known kinds are queued and nothing was committed yet
TwoQueued ==
    /\ lifecycle = "Started"
    /\ Len(submitted) = 2
    /\ \A i \in 1..2 : submitted[i].RequestType \in KnownKinds
    /\ nativeCalls = <<>>
    /\ Idle

AfterCalls == {i \in 1..Len(hookCalls) : hookCalls[i].hook = "after"}

\* exactly one after-hook invocation, with both operations in submission order
OneAfterWithBoth ==
    /\ Cardinality(AfterCalls) = 1
    /\ \A i \in AfterCalls :
         /\ Len(hookCalls[i].ops.elems) = 2
         /\ \A k \in 1..2 : Translated(submitted[k], hookCalls[i].ops.elems[k])

C3_HooksCorrelated ==
    /\ \A i \in 1..Len(hookCalls) :
         /\ hookCalls[i].hook = nativeCalls[i].hook
         /\ hookCalls[i].executionId = nativeCalls[i].id
         /\ hookCalls[i].ops.elems = nativeCalls[i].requests.elems
    /\ \A i, j \in 1..Len(hookCalls) :
         (/\ hookCalls[i].hook = "before"
          /\ hookCalls[j].hook = "after"
          /\ hookCalls[i].executionId = hookCalls[j].executionId)
            => hookCalls[j].ops.elems = hookCalls[i].ops.elems

\* two workers commit at the same time: the after hook of the second
\* execution id comes before that of the first
C3_Witness ==
    /\ Len(hookCalls) = 4
    /\ hookCalls[1].hook = "before" /\ hookCalls[1].executionId = 1
    /\ hookCalls[2].hook = "before" /\ hookCalls[2].executionId = 2
    /\ hookCalls[3].hook = "after" /\ hookCalls[3].executionId = 2
    /\ hookCalls[4].hook = "after" /\ hookCalls[4].executionId = 1
    /\ hookCalls[4].ops.elems # hookCalls[3].ops.elems

\* a step of the facade call op: the worker steps change inflight, the
\* facade calls leave it and record themselves in lastCall
Called(op) == inflight' = inflight /\ lastCall'.op = op

====
